---------------------------- MODULE Spec2Model ----------------------------
(***************************************************************************)
(* A model of arumajirou/model_info: the web cache (utils/web_cache.py),   *)
(* the text utilities (utils/text.py), the config flattener and object     *)
(* pool (collectors/neuralforecast_af_v2.py), the family taxonomy parser   *)
(* and catalog builder (collectors/neuralforecast_catalog.py) and the      *)
(* tree writer (io/tree_save.py).                                          *)
(*                                                                         *)
(* Python strings and file contents are sequences of one-character         *)
(* strings, so that regular expressions, stripping, slicing, decoding and  *)
(* newline translation are computed character by character.                *)
(***************************************************************************)
EXTENDS Integers, Sequences, FiniteSets, TLC

VARIABLES
    \* ---- web cache ----
    cache,          \* cache_path -> what is there: absent, a directory, or a file's bytes
    gets,           \* number of network GETs issued so far
    lastFetch,      \* the last fetch_and_cache call: arguments, state before, outcome
    fetchCalls,     \* number of fetch_and_cache calls so far
    \* ---- config flattener and object pool ----
    sha1,           \* the digest function, given by the strings whose digests collide
    config_rows,    \* the ConfigEntryRecord list
    obj_rows,       \* the object pool: obj_id -> ObjectRecord
    lastFlat,       \* the last flattener / registration call and the state before it
    flatCalls,      \* number of flattener / registration calls so far
    \* ---- catalog builder ----
    pc,             \* position in build_neuralforecast_catalog
    html,           \* the documentation text handed to the parser
    library,        \* the reflected library: nf_models' modules and nf_auto's members
    fam_map,        \* result of _parse_automodel_family_map
    models_df,      \* result of _collect_models_only (first component)
    import_errors_df, \* result of _collect_models_only (second component)
    auto_df,        \* result of _collect_auto_models
    catalog_df,     \* result of build_neuralforecast_catalog
    \* ---- tree writer ----
    df,             \* the table handed to save_catalog_tree
    fs,             \* files under <base_dir>/<catalog_name>: path -> rows written
    lastSave,       \* the last save_catalog_tree call
    saves           \* number of save_catalog_tree calls so far

cacheVars == <<cache, gets, lastFetch, fetchCalls>>
flatVars  == <<sha1, config_rows, obj_rows, lastFlat, flatCalls>>
catVars   == <<pc, html, library, fam_map, models_df, import_errors_df, auto_df, catalog_df>>
treeVars  == <<df, fs, lastSave, saves>>
vars      == <<cacheVars, flatVars, catVars, treeVars>>

-----------------------------------------------------------------------------
(* Bounds of the model *)

MaxFetchCalls == 3
MaxFlatCalls == 2
MaxSaves == 1

-----------------------------------------------------------------------------
(* Characters and generic string helpers *)

UpperChars == {"A","B","C","D","E","F","G","H","I","J","K","L","M",
               "N","O","P","Q","R","S","T","U","V","W","X","Y","Z"}
LowerChars == {"a","b","c","d","e","f","g","h","i","j","k","l","m",
               "n","o","p","q","r","s","t","u","v","w","x","y","z"}
DigitChars == {"0","1","2","3","4","5","6","7","8","9"}
HexChars   == DigitChars \cup {"a","b","c","d","e","f","A","B","C","D","E","F"}
\* \w of Python's re on the ASCII characters the model uses
WordChars  == UpperChars \cup LowerChars \cup DigitChars \cup {"_"}
\* the characters str.strip() removes
SpaceChars == {" ", "\t", "\n", "\r"}

Min(S) == CHOOSE x \in S : \A y \in S : x <= y
Max(S) == CHOOSE x \in S : \A y \in S : x >= y

\* s[i:] for a 1-based position i
From(s, i) == SubSeq(s, i, Len(s))

\* Python's  sub in s
Contains(s, sub) ==
    \E i \in 0..(Len(s) - Len(sub)) : SubSeq(s, i + 1, i + Len(sub)) = sub

\* Python's  s[:n]
Prefix(s, n) == SubSeq(s, 1, IF n < Len(s) THEN n ELSE Len(s))

\* c * n
Repeat(c, n) == [i \in 1..n |-> c]

\* Python's  s.strip()
Strip(s) ==
    LET keep == { i \in 1..Len(s) : s[i] \notin SpaceChars } IN
    IF keep = {} THEN <<>> ELSE SubSeq(s, Min(keep), Max(keep))

-----------------------------------------------------------------------------
(* utils/web_cache.py *)

\* A byte that is no valid UTF-8 on its own (0xFF)
BadByte == "xFF"

\* bytes.decode("utf-8", errors="ignore"): undecodable bytes are dropped
DecodeIgnore(bytes) == SelectSeq(bytes, LAMBDA b : b # BadByte)

\* Text-mode reading with newline=None: "\r\n" and a lone "\r" become "\n",
\* that is every "\r" becomes "\n" and a "\n" right after a "\r" is dropped
UniversalNewlines(s) ==
    LET marked == [i \in 1..Len(s) |->
                     [c |-> IF s[i] = "\r" THEN "\n" ELSE s[i],
                      drop |-> s[i] = "\n" /\ i > 1 /\ s[i - 1] = "\r"]]
        kept == SelectSeq(marked, LAMBDA m : ~m.drop)
    IN [i \in 1..Len(kept) |-> kept[i].c]

\* Path.read_text(encoding="utf-8", errors="ignore")
read_text(bytes) == UniversalNewlines(DecodeIgnore(bytes))

\* Path.write_text(text, encoding="utf-8") on POSIX: "\n" is written as
\* os.linesep = "\n", every other character as its own byte
write_text(text) == text

\* Response.raise_for_status(): HTTPError for 4xx and 5xx
raise_for_status(status) == 400 <= status /\ status < 600

\* Path.exists()
exists(c) == c.kind \in {"file", "dir"}

Returned(text) == [kind |-> "return", text |-> text]
Raised(exc) == [kind |-> "raise", text |-> <<>>, exc |-> exc]

\* fetch_and_cache(url, cache_path, timeout, force): the file at cache_path
\* afterwards, the number of GETs issued, and what the call returns or raises.
\* net is what the network answers to a GET of url.
fetch_and_cache(c, force, net) ==
    IF exists(c) /\ ~force
    THEN IF c.kind = "dir"
         THEN [cache |-> c, gets |-> 0, ret |-> Raised("IsADirectoryError")]
         ELSE [cache |-> c, gets |-> 0, ret |-> Returned(read_text(c.bytes))]
    ELSE IF net.kind = "error"
    THEN [cache |-> c, gets |-> 1, ret |-> Raised("RequestException")]
    ELSE IF raise_for_status(net.status)
    THEN [cache |-> c, gets |-> 1, ret |-> Raised("HTTPError")]
    ELSE IF c.kind = "dir"
    THEN [cache |-> c, gets |-> 1, ret |-> Raised("IsADirectoryError")]
    ELSE [cache |-> [kind |-> "file", bytes |-> write_text(net.text)],
          gets |-> 1, ret |-> Returned(net.text)]

Absent == [kind |-> "absent", bytes |-> <<>>]
Directory == [kind |-> "dir", bytes |-> <<>>]
File(bytes) == [kind |-> "file", bytes |-> bytes]

\* Response bodies (str) the network may deliver
Bodies == { <<>>, <<"a">>, <<"a", "\n", "b">>, <<"a", "\r", "\n", "b">>, <<"b", "\r">> }
\* Files that may already be at cache_path before the first call
PreFiles == Bodies \cup { <<"a", BadByte, "b">>, <<"\r", BadByte, "\n">> }
Statuses == {200, 304, 404, 500}
NetAnswers == { [kind |-> "error", status |-> 0, text |-> <<>>] }
              \cup { [kind |-> "response", status |-> st, text |-> b] :
                     st \in Statuses, b \in Bodies }

NoFetch == [path |-> "", force |-> FALSE, pre |-> Absent, net |-> [kind |-> "none"],
            gets |-> 0, ret |-> [kind |-> "none"]]

\* the cache paths of a build, both absent
NoCache == [p \in {"models.html", "llms.txt"} |-> Absent]

CacheInit ==
    /\ cache \in { [NoCache EXCEPT !["models.html"] = c] :
                    c \in {Absent, Directory} \cup { File(b) : b \in PreFiles } }
    /\ gets = 0
    /\ lastFetch = NoFetch
    /\ fetchCalls = 0

CacheIdle ==
    /\ cache = NoCache
    /\ gets = 0
    /\ lastFetch = NoFetch
    /\ fetchCalls = 0

\* One call fetch_and_cache(url, path, force=force); net is the network's answer
FetchAndCache(path, force, net) ==
    /\ fetchCalls < MaxFetchCalls
    /\ LET r == fetch_and_cache(cache[path], force, net) IN
         /\ cache' = [cache EXCEPT ![path] = r.cache]
         /\ gets' = gets + r.gets
         /\ lastFetch' = [path |-> path, force |-> force, pre |-> cache[path],
                          net |-> net, gets |-> r.gets, ret |-> r.ret]
    /\ fetchCalls' = fetchCalls + 1

-----------------------------------------------------------------------------
(* utils/text.py: stable_repr, object_id, short_scalar; Python's repr/str *)

Digits == <<"0","1","2","3","4","5","6","7","8","9">>

\* str(i) of a non-negative int
RECURSIVE IntToStr(_)
IntToStr(i) == IF i < 10 THEN <<Digits[i + 1]>>
               ELSE IntToStr(i \div 10) \o <<Digits[(i % 10) + 1]>>

\* The values flatten_config meets, as tagged variants
IntV(n)   == [tag |-> "scalar", ty |-> "int", n |-> n]
StrV(s)   == [tag |-> "scalar", ty |-> "str", s |-> s]
BoolV(b)  == [tag |-> "scalar", ty |-> "bool", b |-> b]
\* a float, with the text str() and repr() print for it
FloatV(lit) == [tag |-> "scalar", ty |-> "float", lit |-> lit]
NoneV     == [tag |-> "scalar", ty |-> "NoneType"]
ListV(xs) == [tag |-> "list", items |-> xs]
TupleV(xs) == [tag |-> "tuple", items |-> xs]
\* a dict: its (key, value) pairs in insertion order, keys pairwise distinct
DictV(kvs) == [tag |-> "dict", items |-> kvs]
\* any other object: its class's __module__ and __qualname__, and what its
\* __repr__ prints, which is before \o "0x" \o addr \o after (no "0x..."
\* part when addr is empty)
ObjV(module, type, before, addr, after) ==
    [tag |-> "object", module |-> module, type |-> type,
     before |-> before, addr |-> addr, after |-> after]

\* isinstance(x, SCALAR_TYPES)
SCALAR_TYPES == {"NoneType", "bool", "int", "float", "str"}
IsScalar(x) == x.tag = "scalar" /\ x.ty \in SCALAR_TYPES

\* type(x).__module__
Builtins == <<"b","u","i","l","t","i","n","s">>
TypeModule(x) == IF x.tag = "object" THEN x.module ELSE Builtins

\* type(x).__qualname__
TypeName(x) ==
    CASE x.tag = "scalar" -> (CASE x.ty = "int" -> <<"i","n","t">>
                                [] x.ty = "str" -> <<"s","t","r">>
                                [] x.ty = "bool" -> <<"b","o","o","l">>
                                [] x.ty = "float" -> <<"f","l","o","a","t">>
                                [] OTHER -> <<"N","o","n","e","T","y","p","e">>)
      [] x.tag = "list" -> <<"l","i","s","t">>
      [] x.tag = "tuple" -> <<"t","u","p","l","e">>
      [] x.tag = "dict" -> <<"d","i","c","t">>
      [] OTHER -> x.type

\* str(type(x)):  <class 'module.QualName'>, the module left out for the
\* classes of builtins
TypeStr(x) ==
    <<"<","c","l","a","s","s"," ","'">>
    \o (IF TypeModule(x) = Builtins THEN <<>> ELSE TypeModule(x) \o <<".">>)
    \o TypeName(x) \o <<"'",">">>

\* str(k) of a dict key or scalar
Str(x) ==
    CASE x.ty = "int" -> IntToStr(x.n)
      [] x.ty = "str" -> x.s
      [] x.ty = "bool" -> (IF x.b THEN <<"T","r","u","e">> ELSE <<"F","a","l","s","e">>)
      [] x.ty = "float" -> x.lit
      [] OTHER -> <<"N","o","n","e">>

\* ", ".join(parts)
RECURSIVE JoinComma(_)
JoinComma(parts) ==
    IF parts = <<>> THEN <<>>
    ELSE IF Len(parts) = 1 THEN parts[1]
    ELSE parts[1] \o <<",", " ">> \o JoinComma(Tail(parts))

\* repr(x); a str is quoted (the model's strings hold no quote or backslash)
RECURSIVE Repr(_)
Repr(x) ==
    CASE x.tag = "scalar" ->
            (IF x.ty = "str" THEN <<"'">> \o x.s \o <<"'">> ELSE Str(x))
      [] x.tag = "list" ->
            <<"[">> \o JoinComma([i \in 1..Len(x.items) |-> Repr(x.items[i])]) \o <<"]">>
      [] x.tag = "tuple" ->
            (IF Len(x.items) = 1 THEN <<"(">> \o Repr(x.items[1]) \o <<",", ")">>
             ELSE <<"(">> \o JoinComma([i \in 1..Len(x.items) |-> Repr(x.items[i])])
                  \o <<")">>)
      [] x.tag = "dict" ->
            <<"{">> \o JoinComma([i \in 1..Len(x.items) |->
                        Repr(x.items[i][1]) \o <<":", " ">> \o Repr(x.items[i][2])])
            \o <<"}">>
      [] OTHER ->
            x.before \o (IF x.addr = <<>> THEN <<>> ELSE <<"0","x">> \o x.addr) \o x.after

ADDR == <<"0","x","A","D","D","R">>

\* length of the longest run of characters of `chars` at the start of s
RunLength(s, chars) ==
    LET stops == { i \in 1..Len(s) : s[i] \notin chars } IN
    IF stops = {} THEN Len(s) ELSE Min(stops) - 1

\* re.sub(r"0x[0-9a-fA-F]+", "0xADDR", s): the leftmost match is replaced,
\* and the scan goes on after it
RECURSIVE SubAddr(_)
SubAddr(s) ==
    LET starts == { i \in 1..(Len(s) - 2) :
                      s[i] = "0" /\ s[i + 1] = "x" /\ s[i + 2] \in HexChars } IN
    IF starts = {} THEN s
    ELSE LET i == Min(starts)
             n == RunLength(From(s, i + 2), HexChars)
         IN SubSeq(s, 1, i - 1) \o ADDR \o SubAddr(From(s, i + 2 + n))

\* stable_repr(x)
stable_repr(x) == SubAddr(Repr(x))

\* hashlib.sha1(s).hexdigest()[:12]: a function of s that is injective except
\* on the strings of `sha1`, which all share one digest (a 48-bit collision)
Sha1Prefix(s) == IF s \in sha1 THEN <<"c","0","1","1","1","d","e">> ELSE <<"#">> \o s

\* object_id hashing the raw repr instead of the stable one
object_id_RawRepr(x) == Sha1Prefix(TypeStr(x) \o <<"|">> \o Repr(x))

\* object_id(x)
object_id(x) == Sha1Prefix(TypeStr(x) \o <<"|">> \o stable_repr(x))

ShortScalarMaxLen == 80

\* short_scalar(x, max_len=80)
short_scalar(x) ==
    IF x.ty = "str" /\ Len(x.s) > ShortScalarMaxLen
    THEN StrV(SubSeq(x.s, 1, ShortScalarMaxLen - 3) \o <<".", ".", ".">>)
    ELSE x

-----------------------------------------------------------------------------
(* collectors/neuralforecast_af_v2.py: flatten_config and the object pool *)

\* kp = f"{key_path}.{k}" if key_path else str(k), without the separator
child_path_NoDot(key_path, seg) == key_path \o seg

\* kp = f"{key_path}.{k}" if key_path else str(k)   (k a key or an index)
child_path(key_path, seg) ==
    IF key_path # <<>> THEN key_path \o <<".">> \o seg ELSE seg

\* the scalar arm entering the pool like the object arm
scalar_arm_Pooled(auto_name, obj, key_path, rows, pool) ==
    [rows |-> Append(rows, [auto_name |-> auto_name, key_path |-> key_path,
                            value_kind |-> "scalar",
                            value_scalar |-> short_scalar(obj),
                            value_obj_id |-> <<>>]),
     pool |-> (object_id(obj) :> [obj_id |-> object_id(obj), py_type |-> TypeStr(obj),
                                    repr |-> stable_repr(obj)]) @@ pool]

\* the scalar arm: one entry, the pool left alone
scalar_arm(auto_name, obj, key_path, rows, pool) ==
    [rows |-> Append(rows, [auto_name |-> auto_name, key_path |-> key_path,
                            value_kind |-> "scalar",
                            value_scalar |-> short_scalar(obj),
                            value_obj_id |-> <<>>]),
     pool |-> pool]

\* if oid not in obj_rows: obj_rows[oid] = {obj_id, py_type, repr}
pool_insert(pool, x) ==
    IF object_id(x) \in DOMAIN pool THEN pool
    ELSE pool @@ (object_id(x) :> [obj_id |-> object_id(x), py_type |-> TypeStr(x),
                                   repr |-> stable_repr(x)])

\* the object arm: pool the value, one entry referencing it
object_arm(auto_name, obj, key_path, rows, pool) ==
    [rows |-> Append(rows, [auto_name |-> auto_name, key_path |-> key_path,
                            value_kind |-> "object",
                            value_scalar |-> StrV(<<>>),
                            value_obj_id |-> object_id(obj)]),
     pool |-> pool_insert(pool, obj)]

\* flatten_config(auto_name, obj, key_path, config_rows, obj_rows): the two
\* collections after the call.  flatten_items is the for-loop over a dict's
\* items (seg = str(k)) or over enumerate(list) (seg = str(i)), from item n on.
RECURSIVE flatten_config(_, _, _, _, _)
RECURSIVE flatten_items(_, _, _, _, _, _)
flatten_config(auto_name, obj, key_path, rows, pool) ==
    IF obj.tag \in {"dict", "list", "tuple"}
    THEN flatten_items(auto_name, obj, key_path, rows, pool, 1)
    ELSE IF IsScalar(obj)
    THEN scalar_arm(auto_name, obj, key_path, rows, pool)
    ELSE object_arm(auto_name, obj, key_path, rows, pool)
flatten_items(auto_name, obj, key_path, rows, pool, n) ==
    IF n > Len(obj.items) THEN [rows |-> rows, pool |-> pool]
    ELSE LET kp == IF obj.tag = "dict"
                   THEN child_path(key_path, Str(obj.items[n][1]))
                   ELSE child_path(key_path, IntToStr(n - 1))
             v  == IF obj.tag = "dict" THEN obj.items[n][2] ELSE obj.items[n]
             r  == flatten_config(auto_name, v, kp, rows, pool)
         IN flatten_items(auto_name, obj, key_path, r.rows, r.pool, n + 1)

\* build_neuralforecast_af_v2, the default of one constructor parameter:
\* its default_kind / default_scalar / default_obj_id and the pool afterwards
register_default(dv, pool) ==
    IF IsScalar(dv)
    THEN [default_kind |-> "scalar", default_scalar |-> short_scalar(dv),
          default_obj_id |-> <<>>, pool |-> pool]
    ELSE [default_kind |-> "object", default_scalar |-> StrV(<<>>),
          default_obj_id |-> object_id(dv), pool |-> pool_insert(pool, dv)]

-----------------------------------------------------------------------------
(* The flattener's inputs and its state machine *)

Long81 == StrV(Repeat("x", 81))
Long80 == StrV(Repeat("x", 80))

ScalarValues == { NoneV, BoolV(TRUE), IntV(1), IntV(2), IntV(3), FloatV(<<"1",".","5">>),
                  StrV(<<"s">>), Long80, Long81 }

\* Two Foo objects that differ only in their address, a Bar object printing
\* like the first Foo, a Foo object printing no address, an object of
\* another module's class Foo printing like it, and a builtins object
ModLosses == <<"n","f",".","l","o","s","s","e","s">>
ObjFoo1 == ObjV(ModLosses, <<"F","o","o">>, <<"<","F"," ">>, <<"7","f","1","a">>, <<">">>)
ObjFoo2 == ObjV(ModLosses, <<"F","o","o">>, <<"<","F"," ">>, <<"5","5","B","c","0">>, <<">">>)
ObjBar  == ObjV(ModLosses, <<"B","a","r">>, <<"<","F"," ">>, <<"7","f","1","a">>, <<">">>)
ObjFooX == ObjV(ModLosses, <<"F","o","o">>, <<"F","(","x","=","1",")">>, <<>>, <<>>)
ObjFooY == ObjV(<<"n","f",".","o","t","h","e","r">>, <<"F","o","o">>, <<"F","(","x","=","1",")">>, <<>>, <<>>)
ObjRange == ObjV(Builtins, <<"r","a","n","g","e">>, <<"r","a","n","g","e","(","0",","," ","3",")">>, <<>>, <<>>)
ObjectValues == { ObjFoo1, ObjFoo2, ObjBar, ObjFooX, ObjFooY, ObjRange }

\* {"a": 1, "b": [2, 3]}
ExampleConfig ==
    DictV(<< <<StrV(<<"a">>), IntV(1)>>,
             <<StrV(<<"b">>), ListV(<<IntV(2), IntV(3)>>)>> >>)

ContainerValues == {
    ExampleConfig,
    DictV(<<>>), ListV(<<>>), TupleV(<<>>),
    ListV(<<ObjFoo1, ObjFoo2>>),
    ListV(<<ObjFooX, ObjFooY>>),
    TupleV(<<ObjFoo2>>),
    \* {1: Bar, "1": 1}: two keys with the same str()
    DictV(<< <<IntV(1), ObjBar>>, <<StrV(<<"1">>), IntV(1)>> >>),
    \* {"": {"a": None}}: an empty key
    DictV(<< <<StrV(<<>>), DictV(<< <<StrV(<<"a">>), NoneV>> >>)>> >>),
    \* [{}, [[long]], ()]
    ListV(<<DictV(<<>>), ListV(<<ListV(<<Long81>>)>>), TupleV(<<>>)>>),
    \* {"a": FooX, "b": (Foo1, {"k": Foo2})}
    DictV(<< <<StrV(<<"a">>), ObjFooX>>,
             <<StrV(<<"b">>), TupleV(<<ObjFoo1,
                    DictV(<< <<StrV(<<"k">>), ObjFoo2>> >>)>>)>> >>),
    \* a list of eleven items: indices 0..10
    ListV([i \in 1..11 |-> IntV(1)])
}

FlattenInputs == ScalarValues \cup ObjectValues \cup ContainerValues

CfgRoot == <<"c","f","g">>

\* The calls made: every input from the root path "cfg", some from the
\* empty root path
EmptyRootInputs == { IntV(1), ObjFoo2, ExampleConfig, ListV(<<ObjFoo1, ObjFoo2>>),
                     DictV(<< <<StrV(<<>>), DictV(<< <<StrV(<<"a">>), NoneV>> >>)>> >>) }
FlattenCalls ==
    { [auto_name |-> "AutoA", obj |-> v, key_path |-> CfgRoot] : v \in FlattenInputs }
    \cup { [auto_name |-> "AutoB", obj |-> v, key_path |-> <<>>] : v \in EmptyRootInputs }

\* The constructor defaults met
DefaultValues == ObjectValues \cup { NoneV, IntV(1), Long81, ListV(<<>>),
                                    ListV(<<ObjFoo1, ObjFoo2>>), TupleV(<<ObjFoo2>>) }

HashedString(x) == TypeStr(x) \o <<"|">> \o stable_repr(x)

\* The digest collisions considered: none, one between two objects of one
\* type, one between objects of two types
Sha1Choices == { {},
                 { HashedString(ObjFoo1), HashedString(ObjFooX) },
                 { HashedString(ObjBar), HashedString(ObjFooX) } }

NoFlat == [op |-> "none", auto_name |-> "", obj |-> NoneV, key_path |-> <<>>,
           preRows |-> <<>>, prePool |-> <<>>, reg |-> <<>>]

FlatInit ==
    /\ sha1 \in Sha1Choices
    /\ config_rows = <<>>
    /\ obj_rows = <<>>
    /\ lastFlat = NoFlat
    /\ flatCalls = 0

FlatIdle ==
    /\ sha1 = {}
    /\ config_rows = <<>>
    /\ obj_rows = <<>>
    /\ lastFlat = NoFlat
    /\ flatCalls = 0

\* One call  flatten_config(auto_name, obj, key_path, config_rows, obj_store)
FlattenConfig(auto_name, obj, key_path) ==
    /\ flatCalls < MaxFlatCalls
    /\ LET r == flatten_config(auto_name, obj, key_path, config_rows, obj_rows) IN
         /\ config_rows' = r.rows
         /\ obj_rows' = r.pool
    /\ lastFlat' = [op |-> "flatten", auto_name |-> auto_name, obj |-> obj,
                    key_path |-> key_path, preRows |-> config_rows,
                    prePool |-> obj_rows, reg |-> <<>>]
    /\ flatCalls' = flatCalls + 1
    /\ UNCHANGED sha1

\* One defaulted constructor parameter met by build_neuralforecast_af_v2
RegisterDefault(auto_name, dv) ==
    /\ flatCalls < MaxFlatCalls
    /\ LET r == register_default(dv, obj_rows) IN
         /\ obj_rows' = r.pool
         /\ lastFlat' = [op |-> "register", auto_name |-> auto_name, obj |-> dv,
                         key_path |-> <<>>, preRows |-> config_rows,
                         prePool |-> obj_rows,
                         reg |-> [default_kind |-> r.default_kind,
                                  default_scalar |-> r.default_scalar,
                                  default_obj_id |-> r.default_obj_id]]
    /\ flatCalls' = flatCalls + 1
    /\ UNCHANGED <<sha1, config_rows>>

-----------------------------------------------------------------------------
(* collectors/neuralforecast_catalog.py: _parse_automodel_family_map *)

UpperSeq == <<"A","B","C","D","E","F","G","H","I","J","K","L","M","N","O","P","Q","R","S","T","U","V","W","X","Y","Z">>
LowerSeq == <<"a","b","c","d","e","f","g","h","i","j","k","l","m","n","o","p","q","r","s","t","u","v","w","x","y","z">>

\* str.lower()
LowerChar(c) == IF c \in UpperChars
                THEN LowerSeq[CHOOSE i \in 1..26 : UpperSeq[i] = c] ELSE c
Lower(s) == [i \in 1..Len(s) |-> LowerChar(s[i])]

\* re.sub(r"<[^>]+>", "\n", html): the leftmost "<", one or more characters
\* other than ">", and the ">" after them
RECURSIVE StripTags(_)
StripTags(s) ==
    LET starts == { i \in 1..Len(s) :
                      /\ s[i] = "<"
                      /\ i + 1 <= Len(s) /\ s[i + 1] # ">"
                      /\ \E j \in (i + 2)..Len(s) : s[j] = ">" } IN
    IF starts = {} THEN s
    ELSE LET i == Min(starts)
             j == Min({ k \in (i + 2)..Len(s) : s[k] = ">" })
         IN SubSeq(s, 1, i - 1) \o <<"\n">> \o StripTags(From(s, j + 1))

\* str.splitlines() for the line breaks "\n", "\r\n" and "\r"
RECURSIVE SplitLines(_)
SplitLines(s) ==
    LET breaks == { i \in 1..Len(s) : s[i] \in {"\n", "\r"} } IN
    IF s = <<>> THEN <<>>
    ELSE IF breaks = {} THEN <<s>>
    ELSE LET i == Min(breaks)
             n == IF s[i] = "\r" /\ i < Len(s) /\ s[i + 1] = "\n" THEN 2 ELSE 1
         IN <<SubSeq(s, 1, i - 1)>> \o SplitLines(From(s, i + n))

\* [ln.strip() for ln in text.splitlines() if ln.strip()]
StrippedNonEmpty(lns) ==
    SelectSeq([i \in 1..Len(lns) |-> Strip(lns[i])], LAMBDA ln : ln # <<>>)

DocLines(doc) == StrippedNonEmpty(SplitLines(StripTags(doc)))

\* the five family labels of the header test
HeaderLabels == {
    <<"R","N","N","-","B","a","s","e","d"," ","M","o","d","e","l","s">>,
    <<"T","r","a","n","s","f","o","r","m","e","r","-","B","a","s","e","d"," ","M","o","d","e","l","s">>,
    <<"C","N","N","-","B","a","s","e","d"," ","M","o","d","e","l","s">>,
    <<"L","i","n","e","a","r"," ","a","n","d"," ","M","L","P"," ","M","o","d","e","l","s">>,
    <<"S","p","e","c","i","a","l","i","z","e","d"," ","M","o","d","e","l","s">>
}

\* the header test made on the lower-cased line
is_header_AnyCase(ln) == \E lab \in HeaderLabels : Contains(Lower(ln), Lower(lab))

\* the header test of the loop: one of the five labels occurs in the line
is_header(ln) == \E lab \in HeaderLabels : Contains(ln, lab)

\* norm(h)
norm(h) ==
    LET l == Lower(h) IN
    IF Contains(l, <<"r","n","n","-","b","a","s","e","d">>) THEN "RNN"
    ELSE IF Contains(l, <<"t","r","a","n","s","f","o","r","m","e","r","-","b","a","s","e","d">>) THEN "Transformer"
    ELSE IF Contains(l, <<"c","n","n","-","b","a","s","e","d">>) THEN "CNN"
    ELSE IF Contains(l, <<"l","i","n","e","a","r">>) \/ Contains(l, <<"m","l","p">>) THEN "Linear/MLP"
    ELSE IF Contains(l, <<"s","p","e","c","i","a","l","i","z","e","d">>) THEN "Specialized"
    ELSE "Other"

\* re.findall(r"\bAuto[A-Za-z0-9_]+\b", ln): a match is a whole run of word
\* characters that starts with Auto and is longer than it
RECURSIVE FindAuto(_)
FindAuto(ln) ==
    LET words == { i \in 1..Len(ln) :
                     ln[i] \in WordChars /\ (i = 1 \/ ln[i - 1] \notin WordChars) } IN
    IF words = {} THEN <<>>
    ELSE LET i == Min(words)
             n == RunLength(From(ln, i), WordChars)
             w == SubSeq(ln, i, i + n - 1)
         IN (IF n >= 5 /\ SubSeq(w, 1, 4) = <<"A","u","t","o">> THEN <<w>> ELSE <<>>)
            \o FindAuto(From(ln, i + n))

\* d[key] = value on a dict kept as its (key, value) pairs in insertion order
RECURSIVE MapSet(_, _, _)
MapSet(fm, key, value) ==
    IF fm = <<>> THEN << <<key, value>> >>
    ELSE IF Head(fm)[1] = key THEN << <<key, value>> >> \o Tail(fm)
    ELSE <<Head(fm)>> \o MapSet(Tail(fm), key, value)

\* d.get(key, default)
RECURSIVE MapGet(_, _, _)
MapGet(fm, key, default) ==
    IF fm = <<>> THEN default
    ELSE IF Head(fm)[1] = key THEN Head(fm)[2] ELSE MapGet(Tail(fm), key, default)

\* the assignment keeping the family a name already has
RECURSIVE AssignAll_KeepFirst(_, _, _)
AssignAll_KeepFirst(fm, names, family) ==
    IF names = <<>> THEN fm
    ELSE AssignAll_KeepFirst(
            IF \E i \in 1..Len(fm) : fm[i][1] = Head(names) THEN fm
            ELSE Append(fm, <<Head(names), family>>),
            Tail(names), family)

\* for n in names: fam_map[n] = family
RECURSIVE AssignAll(_, _, _)
AssignAll(fm, names, family) ==
    IF names = <<>> THEN fm
    ELSE AssignAll(MapSet(fm, Head(names), family), Tail(names), family)

\* the loop  for ln in lines  of _parse_automodel_family_map, from the
\* state (family, fam_map); family "" stands for None
RECURSIVE ParseLines(_, _, _)
ParseLines(lns, family, fm) ==
    IF lns = <<>> THEN fm
    ELSE IF is_header(Head(lns)) THEN ParseLines(Tail(lns), norm(Head(lns)), fm)
    ELSE IF family # ""
         THEN ParseLines(Tail(lns), family, AssignAll(fm, FindAuto(Head(lns)), family))
    ELSE ParseLines(Tail(lns), family, fm)

\* _parse_automodel_family_map(html)
parse_automodel_family_map(doc) == ParseLines(DocLines(doc), "", <<>>)

-----------------------------------------------------------------------------
(* collectors/neuralforecast_catalog.py: the collectors and the builder *)

\* The characters of the model in code point order, for str comparison
AsciiSeq ==
    <<"\n","\r"," ","!","'","(",")",",","-",".","/","0","1","2","3","4","5","6","7","8","9",":","<","=",">">>
    \o <<"A","B","C","D","E","F","G","H","I","J","K","L","M","N","O","P","Q","R","S","T","U","V","W","X","Y","Z","[","]","_">>
    \o <<"a","b","c","d","e","f","g","h","i","j","k","l","m","n","o","p","q","r","s","t","u","v","w","x","y","z","{","|","}">>
CharCode(c) == CHOOSE i \in 1..Len(AsciiSeq) : AsciiSeq[i] = c

\* Python's  a < b  on str
StrLess(a, b) ==
    LET n == IF Len(a) < Len(b) THEN Len(a) ELSE Len(b)
        diff == { i \in 1..n : a[i] # b[i] }
    IN IF diff = {} THEN Len(a) < Len(b)
       ELSE CharCode(a[Min(diff)]) < CharCode(b[Min(diff)])

\* s.startswith(p)
StartsWith(s, p) == Len(s) >= Len(p) /\ SubSeq(s, 1, Len(p)) = p

\* s.replace(old, "", 1): the first occurrence of old removed
RemoveFirst(s, old) ==
    LET at == { i \in 1..(Len(s) - Len(old) + 1) : SubSeq(s, i, i + Len(old) - 1) = old } IN
    IF at = {} THEN s
    ELSE SubSeq(s, 1, Min(at) - 1) \o From(s, Min(at) + Len(old))

\* doc.splitlines()[0] if doc else ""
FirstDocLine(doc) == IF doc = <<>> THEN <<>> ELSE SplitLines(doc)[1]

\* The sort keys: str order of the kind and family labels
KindKey(kind) == IF kind = "auto_model" THEN 0 ELSE 1
FamilySeq == <<"", "CNN", "Linear/MLP", "Other", "RNN", "Specialized", "Transformer">>
FamilyKey(fam) == CHOOSE i \in 1..Len(FamilySeq) : FamilySeq[i] = fam

NameLess(r1, r2) == StrLess(r1.name, r2.name)
ModuleLess(r1, r2) == StrLess(r1.module, r2.module)
CatalogLess(r1, r2) ==
    \/ KindKey(r1.kind) < KindKey(r2.kind)
    \/ /\ r1.kind = r2.kind
       /\ \/ FamilyKey(r1.family) < FamilyKey(r2.family)
          \/ r1.family = r2.family /\ StrLess(r1.name, r2.name)

\* the strict order of the sort keys named by `by`
RowLess(by, r1, r2) ==
    CASE by = "name" -> NameLess(r1, r2)
      [] by = "module" -> ModuleLess(r1, r2)
      [] OTHER -> CatalogLess(r1, r2)

\* DataFrame.sort_values(by): a stable sort
RECURSIVE InsertSorted(_, _, _)
InsertSorted(sorted, row, by) ==
    IF sorted = <<>> THEN <<row>>
    ELSE IF RowLess(by, row, Head(sorted)) THEN <<row>> \o sorted
    ELSE <<Head(sorted)>> \o InsertSorted(Tail(sorted), row, by)
RECURSIVE SortFrom(_, _, _)
SortFrom(rows, sorted, by) ==
    IF rows = <<>> THEN sorted
    ELSE SortFrom(Tail(rows), InsertSorted(sorted, Head(rows), by), by)
sort_values(rows, by) == SortFrom(rows, <<>>, by)

\* drop_duplicates keeping the last row of each qualname
RECURSIVE drop_duplicates_KeepLast(_)
drop_duplicates_KeepLast(rows) ==
    IF rows = <<>> THEN <<>>
    ELSE IF \E j \in 2..Len(rows) : rows[j].qualname = Head(rows).qualname
         THEN drop_duplicates_KeepLast(Tail(rows))
    ELSE <<Head(rows)>> \o drop_duplicates_KeepLast(Tail(rows))

\* DataFrame.drop_duplicates(subset=["qualname"]): keep="first" by default
RECURSIVE DropFrom(_, _)
DropFrom(rows, kept) ==
    IF rows = <<>> THEN kept
    ELSE IF \E j \in 1..Len(kept) : kept[j].qualname = Head(rows).qualname
         THEN DropFrom(Tail(rows), kept)
    ELSE DropFrom(Tail(rows), Append(kept, Head(rows)))
drop_duplicates(rows) == DropFrom(rows, <<>>)

Dot == <<".">>
AutoPrefix == <<"A","u","t","o">>

\* the rows one module contributes in _collect_models_only: the loop over
\* inspect.getmembers(mod, inspect.isclass)
RECURSIVE ModelRowsOfMembers(_, _, _)
ModelRowsOfMembers(members, modName, baseModel) ==
    IF members = <<>> THEN <<>>
    ELSE LET m == Head(members)
             rest == ModelRowsOfMembers(Tail(members), modName, baseModel)
         IN IF m.module # modName THEN rest
            ELSE IF StartsWith(m.cls_name, <<"_">>) THEN rest
            ELSE IF baseModel /\ m.subclass # "yes" THEN rest
            ELSE <<[kind |-> "model", name |-> m.cls_name, module |-> m.module,
                    qualname |-> m.module \o Dot \o m.cls_name,
                    doc |-> FirstDocLine(m.doc)]>> \o rest

\* rows of _collect_models_only before the DataFrame is built: the loop over
\* pkgutil.iter_modules
RECURSIVE CollectedModelRows(_, _)
CollectedModelRows(modules, baseModel) ==
    IF modules = <<>> THEN <<>>
    ELSE IF ~Head(modules).imports THEN CollectedModelRows(Tail(modules), baseModel)
    ELSE ModelRowsOfMembers(Head(modules).members, Head(modules).name, baseModel)
         \o CollectedModelRows(Tail(modules), baseModel)

\* errors of _collect_models_only
RECURSIVE CollectedImportErrors(_)
CollectedImportErrors(modules) ==
    IF modules = <<>> THEN <<>>
    ELSE IF ~Head(modules).imports
         THEN <<[module |-> Head(modules).modname, error |-> Head(modules).error]>>
              \o CollectedImportErrors(Tail(modules))
    ELSE CollectedImportErrors(Tail(modules))

\* _collect_models_only(): KeyError when no class was collected (the empty
\* DataFrame has no "name" column to sort by)
collect_models_only(lib) ==
    LET rows == CollectedModelRows(lib.modules, lib.base_model) IN
    IF rows = <<>> THEN [ok |-> FALSE, models |-> <<>>, errors |-> <<>>]
    ELSE [ok |-> TRUE,
          models |-> sort_values(drop_duplicates(rows), "name"),
          errors |-> sort_values(CollectedImportErrors(lib.modules), "module")]

\* the rows of _collect_auto_models before the DataFrame is built
RECURSIVE CollectedAutoRows(_, _, _)
CollectedAutoRows(members, autoName, fm) ==
    IF members = <<>> THEN <<>>
    ELSE LET m == Head(members)
             rest == CollectedAutoRows(Tail(members), autoName, fm)
         IN IF m.module # autoName THEN rest
            ELSE IF ~StartsWith(m.cls_name, AutoPrefix) THEN rest
            ELSE IF StartsWith(m.cls_name, <<"_">>) THEN rest
            ELSE <<[kind |-> "auto_model", name |-> m.cls_name, module |-> m.module,
                    qualname |-> m.module \o Dot \o m.cls_name,
                    doc |-> FirstDocLine(m.doc),
                    family |-> MapGet(fm, m.cls_name, "")]>> \o rest

\* _collect_auto_models(family_map)
collect_auto_models(lib, fm) ==
    LET rows == CollectedAutoRows(lib.auto_members, lib.auto_name, fm) IN
    IF rows = <<>> THEN [ok |-> FALSE, rows |-> <<>>]
    ELSE [ok |-> TRUE, rows |-> sort_values(drop_duplicates(rows), "name")]

\* the overrides table of build_neuralforecast_catalog
Overrides == <<
    <<<<"A","u","t","o","A","u","t","o","f","o","r","m","e","r">>, <<"A","u","t","o","f","o","r","m","e","r">>>>,
    <<<<"A","u","t","o","F","E","D","f","o","r","m","e","r">>, <<"F","E","D","f","o","r","m","e","r">>>>,
    <<<<"A","u","t","o","i","T","r","a","n","s","f","o","r","m","e","r">>, <<"i","T","r","a","n","s","f","o","r","m","e","r">>>>,
    <<<<"A","u","t","o","x","L","S","T","M">>, <<"x","L","S","T","M">>>>,
    <<<<"A","u","t","o","T","i","m","e","X","e","r">>, <<"T","i","m","e","X","e","r">>>> >>

\* the wrapped name taken to be the wrapper's own name
wrapped_name_Same(auto_name) == auto_name

\* overrides.get(auto_name, auto_name.replace("Auto", "", 1))
wrapped_name(auto_name) ==
    MapGet(Overrides, auto_name, RemoveFirst(auto_name, AutoPrefix))

\* for auto_name, fam in fam_map.items(): model_family[wrapped] = fam
RECURSIVE ModelFamily(_, _)
ModelFamily(fm, acc) ==
    IF fm = <<>> THEN acc
    ELSE ModelFamily(Tail(fm), MapSet(acc, wrapped_name(Head(fm)[1]), Head(fm)[2]))

\* models_df["family"] = models_df["name"].map(model_family).fillna("")
WithFamily(rows, model_family) ==
    [i \in 1..Len(rows) |->
        [kind |-> rows[i].kind, name |-> rows[i].name, module |-> rows[i].module,
         qualname |-> rows[i].qualname, doc |-> rows[i].doc,
         family |-> MapGet(model_family, rows[i].name, "")]]

\* pd.concat([models_df, auto_df]).sort_values(["kind", "family", "name"])
build_catalog(models, autos, fm) ==
    sort_values(WithFamily(models, ModelFamily(fm, <<>>)) \o autos, "kind,family,name")

-----------------------------------------------------------------------------
(* The catalog builder's inputs and its state machine *)

ModelsPath == "models.html"
LlmsPath == "llms.txt"
CachePaths == {ModelsPath, LlmsPath}

\* The documentation pages the taxonomy parser is run on: up to
\* MaxDocFragments fragments, one after the other
MaxDocFragments == 3

DocFragments == {
    <<"<","h","2",">","R","N","N","-","B","a","s","e","d"," ","M","o","d","e","l","s","<","/","h","2",">","<","l","i",">","A","u","t","o","X","<","/","l","i",">">>,
    <<"<","h","2",">","r","n","n","-","b","a","s","e","d"," ","m","o","d","e","l","s","<","/","h","2",">">>,
    <<"<","h","3",">","C","N","N","-","B","a","s","e","d"," ","M","o","d","e","l","s"," ","A","u","t","o","X","<","/","h","3",">">>,
    <<"<","l","i",">","A","u","t","o","X","<","/","l","i",">">>,
    <<"A","u","t","o","X",","," ","A","u","t","o","Y"," ","x","A","u","t","o","Z"," ","A","u","t","o","\n">>,
    <<"\r","\n"," ","L","i","n","e","a","r"," ","a","n","d"," ","M","L","P"," ","M","o","d","e","l","s"," ","\n","A","u","t","o","Y","_","1"," ","A","u","t","o","X">>,
    <<"<","a"," ","h","r","e","f","=","'","A","u","t","o","Y","'",">","A","u","t","o","Y","_","1","<","/","a",">">>
}

RECURSIVE DocsOfLength(_)
DocsOfLength(n) ==
    IF n = 0 THEN { <<>> }
    ELSE { f \o d : f \in DocFragments, d \in DocsOfLength(n - 1) }

ParserDocs == UNION { DocsOfLength(n) : n \in 0..MaxDocFragments }

\* The pages the whole build is run on
CatalogDocs == {
    <<"<","h","2",">","R","N","N","-","B","a","s","e","d"," ","M","o","d","e","l","s","<","/","h","2",">","<","l","i",">","A","u","t","o","A","l","p","h","a","<","/","l","i",">">>,
    <<"<","h","2",">","r","n","n","-","b","a","s","e","d"," ","m","o","d","e","l","s","<","/","h","2",">","<","l","i",">","A","u","t","o","A","l","p","h","a","<","/","l","i",">">>,
    <<"A","u","t","o","A","l","p","h","a","\n","C","N","N","-","B","a","s","e","d"," ","M","o","d","e","l","s","\n","A","u","t","o","B","e","t","a"," ","A","u","t","o","A","u","t","o","f","o","r","m","e","r","\n","T","r","a","n","s","f","o","r","m","e","r","-","B","a","s","e","d"," ","M","o","d","e","l","s","\n","A","u","t","o","B","e","t","a",","," ","A","u","t","o","i","T","r","a","n","s","f","o","r","m","e","r">>,
    <<"<","p",">","n","o"," ","h","e","a","d","e","r","<","/","p",">">>
}

Alpha == <<"A","l","p","h","a">>
AutoAlpha == <<"A","u","t","o","A","l","p","h","a">>
ModA == <<"n","f",".","m","o","d","e","l","s",".","a">>
ModB == <<"n","f",".","m","o","d","e","l","s",".","b">>
ModAuto == <<"n","f",".","a","u","t","o">>
DocOne == <<"O","n","e",".","\n","M","o","r","e",".">>
DocTwo == <<"T","w","o",".">>

Member(cls_name, module, subclass, doc) ==
    [cls_name |-> cls_name, module |-> module, subclass |-> subclass, doc |-> doc]
Module(modname, imports, name, members) ==
    [modname |-> modname, imports |-> imports, name |-> name, members |-> members,
     error |-> IF imports THEN <<>> ELSE <<"I","m","p","o","r","t","E","r","r","o","r","(",")">>]
Library(base_model, modules, auto_members) ==
    [base_model |-> base_model, modules |-> modules,
     auto_name |-> ModAuto, auto_members |-> auto_members]

\* The reflected libraries: for each module of nf_models whether it imports,
\* its __name__ and its classes (name, __module__, whether a BaseModel
\* subclass, docstring) in the order of inspect.getmembers, and nf_auto's
\* classes; base_model tells whether BaseModel itself could be imported
Libraries == {
    \* one plain class Alpha, one wrapper AutoAlpha
    Library(TRUE,
        << Module(ModA, TRUE, ModA, << Member(Alpha, ModA, "yes", DocOne) >>) >>,
        << Member(AutoAlpha, ModAuto, "yes", DocTwo) >>),
    \* private, re-exported and non-model classes; a module that fails to import
    Library(TRUE,
        << Module(ModA, TRUE, ModA,
              << Member(Alpha, ModA, "yes", <<>>),
                 Member(<<"B","e","t","a">>, ModB, "yes", DocOne),
                 Member(<<"G","a","m","m","a">>, ModA, "no", DocOne),
                 Member(<<"D","e","l","t","a">>, ModA, "raises", DocOne),
                 Member(<<"_","H","i","d","d","e","n">>, ModA, "yes", DocOne) >>),
           Module(ModB, FALSE, ModB, <<>>) >>,
        << Member(AutoAlpha, ModAuto, "yes", DocOne),
           Member(<<"A","u","t","o","B","e","t","a">>, ModAuto, "yes", <<>>),
           Member(<<"A","u","t","o","G","a","m","m","a">>, ModA, "yes", DocOne),
           Member(<<"H","e","l","p","e","r">>, ModAuto, "yes", DocOne) >>),
    \* two modules reporting the same __name__, each with a class Alpha
    Library(TRUE,
        << Module(ModA, TRUE, ModA, << Member(Alpha, ModA, "yes", DocOne) >>),
           Module(ModB, TRUE, ModA, << Member(Alpha, ModA, "yes", DocTwo),
                                       Member(<<"B","e","t","a">>, ModA, "yes", DocTwo) >>) >>,
        << Member(AutoAlpha, ModAuto, "yes", DocTwo),
           Member(<<"A","u","t","o","B","e","t","a">>, ModAuto, "yes", DocTwo) >>),
    \* the names of the overrides table; BaseModel not importable
    Library(FALSE,
        << Module(ModB, TRUE, ModB,
              << Member(<<"A","u","t","o","f","o","r","m","e","r">>, ModB, "no", DocOne),
                 Member(<<"i","T","r","a","n","s","f","o","r","m","e","r">>, ModB, "yes", DocOne) >>),
           Module(ModA, TRUE, ModA, << Member(<<"B","e","t","a">>, ModA, "yes", DocTwo) >>) >>,
        << Member(<<"A","u","t","o","A","u","t","o","f","o","r","m","e","r">>, ModAuto, "yes", DocOne),
           Member(<<"A","u","t","o","B","e","t","a">>, ModAuto, "yes", DocOne),
           Member(<<"A","u","t","o","i","T","r","a","n","s","f","o","r","m","e","r">>, ModAuto, "yes", DocOne) >>),
    \* no model class at all
    Library(TRUE,
        << Module(ModA, FALSE, ModA, <<>>) >>,
        << Member(AutoAlpha, ModAuto, "yes", DocTwo) >>),
    \* no wrapper class at all
    Library(TRUE,
        << Module(ModA, TRUE, ModA, << Member(Alpha, ModA, "yes", DocOne) >>) >>,
        << Member(<<"H","e","l","p","e","r">>, ModAuto, "yes", DocTwo) >>)
}

AlphaLibrary ==
    Library(TRUE,
        << Module(ModA, TRUE, ModA, << Member(Alpha, ModA, "yes", DocOne) >>) >>,
        << Member(AutoAlpha, ModAuto, "yes", DocTwo) >>)

CatalogNetAnswers ==
    { [kind |-> "error", status |-> 0, text |-> <<>>],
      [kind |-> "response", status |-> 404, text |-> <<>>] }
    \cup { [kind |-> "response", status |-> 200, text |-> d] : d \in CatalogDocs }

CatIdle ==
    /\ pc = "idle"
    /\ html = <<>>
    /\ library = AlphaLibrary
    /\ fam_map = <<>>
    /\ models_df = <<>>
    /\ import_errors_df = <<>>
    /\ auto_df = <<>>
    /\ catalog_df = <<>>

\* before build_neuralforecast_catalog(cache_dir) is called
CatInit ==
    /\ pc = "start"
    /\ html = <<>>
    /\ library \in Libraries
    /\ fam_map = <<>>
    /\ models_df = <<>>
    /\ import_errors_df = <<>>
    /\ auto_df = <<>>
    /\ catalog_df = <<>>

\* the documentation text is in hand, the parser is about to run
ParserInit ==
    /\ pc = "fetched"
    /\ html \in ParserDocs
    /\ library = AlphaLibrary
    /\ fam_map = <<>>
    /\ models_df = <<>>
    /\ import_errors_df = <<>>
    /\ auto_df = <<>>
    /\ catalog_df = <<>>

\* One call fetch_and_cache(url, path, force=False) made by the build: next
\* is the position reached when it returns
BuildFetch(path, net, from, next) ==
    /\ pc = from
    /\ LET r == fetch_and_cache(cache[path], FALSE, net) IN
         /\ cache' = [cache EXCEPT ![path] = r.cache]
         /\ gets' = gets + r.gets
         /\ lastFetch' = [path |-> path, force |-> FALSE, pre |-> cache[path],
                          net |-> net, gets |-> r.gets, ret |-> r.ret]
         /\ fetchCalls' = fetchCalls + 1
         /\ pc' = IF r.ret.kind = "return" THEN next ELSE "failed"
         /\ html' = IF path = ModelsPath /\ r.ret.kind = "return" THEN r.ret.text ELSE html
    /\ UNCHANGED <<library, fam_map, models_df, import_errors_df, auto_df, catalog_df>>

\* html = fetch_and_cache(models_url, f"{cache_dir}/models.html")
BuildFetchModels(net) == BuildFetch(ModelsPath, net, "start", "fetched_models")

\* _ = fetch_and_cache(llms_url, f"{cache_dir}/llms.txt")
BuildFetchLlms(net) == BuildFetch(LlmsPath, net, "fetched_models", "fetched")

\* fam_map = _parse_automodel_family_map(html)
BuildParse ==
    /\ pc = "fetched"
    /\ fam_map' = parse_automodel_family_map(html)
    /\ pc' = "parsed"
    /\ UNCHANGED <<html, library, models_df, import_errors_df, auto_df, catalog_df>>
    /\ UNCHANGED cacheVars

\* models_df, import_errors_df = _collect_models_only()
BuildCollectModels ==
    /\ pc = "parsed"
    /\ LET r == collect_models_only(library) IN
         /\ models_df' = r.models
         /\ import_errors_df' = r.errors
         /\ pc' = IF r.ok THEN "models" ELSE "failed"
    /\ UNCHANGED <<html, library, fam_map, auto_df, catalog_df>>
    /\ UNCHANGED cacheVars

\* auto_df = _collect_auto_models(fam_map)
BuildCollectAutos ==
    /\ pc = "models"
    /\ LET r == collect_auto_models(library, fam_map) IN
         /\ auto_df' = r.rows
         /\ pc' = IF r.ok THEN "autos" ELSE "failed"
    /\ UNCHANGED <<html, library, fam_map, models_df, import_errors_df, catalog_df>>
    /\ UNCHANGED cacheVars

\* the family propagation, the concat and the sort; the build returns
BuildCatalog ==
    /\ pc = "autos"
    /\ catalog_df' = build_catalog(models_df, auto_df, fam_map)
    /\ pc' = "done"
    /\ UNCHANGED <<html, library, fam_map, models_df, import_errors_df, auto_df>>
    /\ UNCHANGED cacheVars

-----------------------------------------------------------------------------
(* utils/text.py: slugify, split_module;  io/tree_save.py *)

\* a missing value of a DataFrame column (NaN)
NaN == FloatV(<<"n","a","n">>)

SlugMaxLen == 120
SlugKeep == WordChars \cup {"-", "."}

\* re.sub(r"[^\w\-.]+", "_", s): each run of other characters becomes "_"
RECURSIVE SubUnsafe(_)
SubUnsafe(s) ==
    LET bad == { i \in 1..Len(s) : s[i] \notin SlugKeep } IN
    IF bad = {} THEN s
    ELSE LET i == Min(bad)
             safe == { k \in i..Len(s) : s[k] \in SlugKeep }
             j == IF safe = {} THEN Len(s) + 1 ELSE Min(safe)
         IN SubSeq(s, 1, i - 1) \o <<"_">> \o SubUnsafe(From(s, j))

\* slugify(x, max_len=120)
slugify(x) ==
    LET s == IF x = NoneV THEN <<>> ELSE Strip(Str(x)) IN
    IF s = <<>> THEN <<"_","u","n","k","n","o","w","n">>
    ELSE Prefix(SubUnsafe(s), SlugMaxLen)

\* str.split(".")
RECURSIVE SplitDot(_)
SplitDot(s) ==
    LET dots == { i \in 1..Len(s) : s[i] = "." } IN
    IF dots = {} THEN <<s>>
    ELSE <<SubSeq(s, 1, Min(dots) - 1)>> \o SplitDot(From(s, Min(dots) + 1))

\* ".".join(parts)
RECURSIVE JoinDot(_)
JoinDot(parts) ==
    IF parts = <<>> THEN <<>>
    ELSE IF Len(parts) = 1 THEN parts[1]
    ELSE parts[1] \o <<".">> \o JoinDot(Tail(parts))

\* split_module(module): (library, namespace, submodule_head, submodule)
split_module(module) ==
    LET parts == SplitDot(module) IN
    [library |-> parts[1],
     namespace |-> IF Len(parts) > 1 THEN parts[2] ELSE <<>>,
     submodule_head |-> IF Len(parts) > 2 THEN parts[3] ELSE <<>>,
     submodule |-> IF Len(parts) > 2 THEN JoinDot(SubSeq(parts, 3, Len(parts))) ELSE <<>>]

SplitColumns == <<"library", "namespace", "submodule_head", "submodule">>
Range(seq) == { seq[i] : i \in 1..Len(seq) }

\* ensure_module_splits(df): a table is its column names and its rows, each
\* row a record over the columns
ensure_module_splits(t) ==
    IF Range(SplitColumns) \subseteq Range(t.columns) THEN t
    ELSE [columns |-> t.columns \o SplitColumns,
          rows |-> [i \in 1..Len(t.rows) |->
                      LET sp == split_module(t.rows[i].module) IN
                      t.rows[i] @@ [library |-> StrV(sp.library),
                                    namespace |-> StrV(sp.namespace),
                                    submodule_head |-> StrV(sp.submodule_head),
                                    submodule |-> StrV(sp.submodule)]]]

\* cols = [c for c in group_cols if c in df2.columns]
RECURSIVE PresentCols(_, _)
PresentCols(group_cols, columns) ==
    IF group_cols = <<>> THEN <<>>
    ELSE IF Head(group_cols) \in Range(columns)
         THEN <<Head(group_cols)>> \o PresentCols(Tail(group_cols), columns)
    ELSE PresentCols(Tail(group_cols), columns)

\* the group key of a row
KeyOf(row, cols) == [j \in 1..Len(cols) |-> row[cols[j]]]

\* the order of two values of a group key: NaN after every string
ValueLess(a, b) ==
    IF a = NaN THEN FALSE ELSE IF b = NaN THEN TRUE ELSE StrLess(a.s, b.s)

\* the order groupby(sort=True) iterates the group keys in
RECURSIVE KeyLess(_, _)
KeyLess(k1, k2) ==
    IF k1 = <<>> THEN FALSE
    ELSE IF Head(k1) = Head(k2) THEN KeyLess(Tail(k1), Tail(k2))
    ELSE ValueLess(Head(k1), Head(k2))

RECURSIVE InsertKey(_, _)
InsertKey(sorted, k) ==
    IF sorted = <<>> THEN <<k>>
    ELSE IF k = Head(sorted) THEN sorted
    ELSE IF KeyLess(k, Head(sorted)) THEN <<k>> \o sorted
    ELSE <<Head(sorted)>> \o InsertKey(Tail(sorted), k)

\* the distinct group keys of the rows, sorted
RECURSIVE GroupKeys(_, _, _)
GroupKeys(rows, cols, sorted) ==
    IF rows = <<>> THEN sorted
    ELSE GroupKeys(Tail(rows), cols, InsertKey(sorted, KeyOf(Head(rows), cols)))

\* the rows of one group, with their index in the table, in table order
RECURSIVE GroupRows(_, _, _, _)
GroupRows(rows, cols, key, i) ==
    IF i > Len(rows) THEN <<>>
    ELSE IF KeyOf(rows[i], cols) = key
         THEN <<[idx |-> i, row |-> rows[i]]>> \o GroupRows(rows, cols, key, i + 1)
    ELSE GroupRows(rows, cols, key, i + 1)

DotDot == <<".",".">>

\* the directory  subdir / slug  as the file system resolves it below (or
\* above) out_root: "." stays, ".." steps up
PathJoin(subdir, slug) ==
    IF slug = <<".">> THEN subdir
    ELSE IF slug = DotDot /\ subdir # <<>> /\ subdir[Len(subdir)] # DotDot
         THEN SubSeq(subdir, 1, Len(subdir) - 1)
    ELSE Append(subdir, slug)

\* for v in key_tuple: subdir = subdir / slugify(v)
RECURSIVE GroupDir(_, _)
GroupDir(key, subdir) ==
    IF key = <<>> THEN subdir
    ELSE GroupDir(Tail(key), PathJoin(subdir, slugify(Head(key))))

AllCsv == << <<"a","l","l",".","c","s","v">> >>
CatalogCsv == <<"c","a","t","a","l","o","g",".","c","s","v">>

\* the loop over df2.groupby(cols, dropna=False): each group's rows written
\* to <subdir>/catalog.csv, a file already there replaced
RECURSIVE WriteGroups(_, _, _, _)
WriteGroups(keys, rows, cols, files) ==
    IF keys = <<>> THEN files
    ELSE WriteGroups(Tail(keys), rows, cols,
            (Append(GroupDir(Head(keys), <<>>), CatalogCsv)
                :> GroupRows(rows, cols, Head(keys), 1)) @@ files)

\* save_catalog_tree(df, base_dir, catalog_name, group_cols): the files
\* under out_root afterwards
save_catalog_tree(t, group_cols, files) ==
    LET df2 == ensure_module_splits(t)
        withAll == (AllCsv :> [i \in 1..Len(df2.rows) |-> [idx |-> i, row |-> df2.rows[i]]])
                   @@ files
        cols == PresentCols(group_cols, df2.columns)
    IN IF cols = <<>> THEN withAll
       ELSE WriteGroups(GroupKeys(df2.rows, cols, <<>>), df2.rows, cols, withAll)

-----------------------------------------------------------------------------
(* The tree writer's inputs and its state machine *)

MaxRows == 2

Long121a == StrV(Repeat("y", 120) \o <<"a">>)
Long121b == StrV(Repeat("y", 120) \o <<"b">>)

FamilyValues == { StrV(<<"a"," ","b">>), StrV(<<"a","_","b">>), StrV(<<>>), StrV(<<" ">>), NaN,
                  StrV(<<"n","a","n">>), StrV(<<".">>), StrV(<<"R","N","N">>), Long121a, Long121b }
KindValues == { StrV(<<"m","o","d","e","l">>), StrV(<<".">>) }
ModuleValues == { <<"n","f",".","m","o","d","e","l","s",".","a">>, <<"n","f">> }

TreeRows == { [module |-> m, kind |-> k, family |-> f] :
              m \in ModuleValues, k \in KindValues, f \in FamilyValues }

RECURSIVE RowSeqs(_)
RowSeqs(n) ==
    IF n = 0 THEN { <<>> }
    ELSE { <<r>> \o rs : r \in TreeRows, rs \in RowSeqs(n - 1) }

TreeColumns == <<"module", "kind", "family">>
\* the tables: one to n rows over module, kind and family, and the one-row
\* tables with the module columns already split out
PlainTables(n) == { [columns |-> TreeColumns, rows |-> rs] :
                    rs \in UNION { RowSeqs(k) : k \in 1..n } }
SplitTables == { ensure_module_splits(t) : t \in PlainTables(1) }
Tables(n) == PlainTables(n) \cup SplitTables

DefaultGroupCols == <<"library", "namespace", "kind", "family">>
GroupColChoices == { DefaultGroupCols, <<"family">>, <<"kind", "family">>, <<"owner">> }

NoSave == [group_cols |-> <<>>, cols |-> <<>>]

TreeIdle ==
    /\ df = [columns |-> <<>>, rows |-> <<>>]
    /\ fs = <<>>
    /\ lastSave = NoSave
    /\ saves = 0

TreeInit ==
    /\ df \in Tables(MaxRows)
    /\ fs = <<>>
    /\ lastSave = NoSave
    /\ saves = 0

\* One call save_catalog_tree(df, base_dir, catalog_name, group_cols)
SaveCatalogTree(group_cols) ==
    /\ saves < MaxSaves
    /\ fs' = save_catalog_tree(df, group_cols, fs)
    /\ lastSave' = [group_cols |-> group_cols,
                    cols |-> PresentCols(group_cols, ensure_module_splits(df).columns)]
    /\ saves' = saves + 1
    /\ UNCHANGED df

-----------------------------------------------------------------------------
(* Specifications *)

\* The web cache alone: calls of fetch_and_cache on the two cache paths
CacheNext ==
    \E path \in CachePaths, force \in BOOLEAN, net \in NetAnswers :
        /\ FetchAndCache(path, force, net)
        /\ UNCHANGED <<flatVars, catVars, treeVars>>
SpecCacheInit == CacheInit /\ FlatIdle /\ CatIdle /\ TreeIdle
SpecCache == SpecCacheInit /\ [][CacheNext]_vars

\* The flattener and the object pool of one build_neuralforecast_af_v2 run
FlatNext ==
    \/ \E c \in FlattenCalls :
        /\ FlattenConfig(c.auto_name, c.obj, c.key_path)
        /\ UNCHANGED <<cacheVars, catVars, treeVars>>
    \/ \E dv \in DefaultValues :
        /\ RegisterDefault("AutoA", dv)
        /\ UNCHANGED <<cacheVars, catVars, treeVars>>
SpecFlattenInit == CacheIdle /\ FlatInit /\ CatIdle /\ TreeIdle
SpecFlatten == SpecFlattenInit /\ [][FlatNext]_vars

\* The taxonomy parser on a documentation page
ParserNext ==
    /\ BuildParse
    /\ UNCHANGED <<flatVars, treeVars>>
SpecParserInit == CacheIdle /\ FlatIdle /\ ParserInit /\ TreeIdle
SpecParser == SpecParserInit /\ [][ParserNext]_vars

\* One run of build_neuralforecast_catalog
CatalogCacheInit ==
    /\ cache \in { [p \in CachePaths |-> IF p = ModelsPath THEN c ELSE l] :
                    c \in {Absent} \cup { File(d) : d \in CatalogDocs },
                    l \in {Absent, File(<<"a">>)} }
    /\ gets = 0
    /\ lastFetch = NoFetch
    /\ fetchCalls = 0
CatalogNext ==
    \/ /\ \E net \in CatalogNetAnswers : BuildFetchModels(net)
       /\ UNCHANGED <<flatVars, treeVars>>
    \/ /\ \E net \in CatalogNetAnswers : BuildFetchLlms(net)
       /\ UNCHANGED <<flatVars, treeVars>>
    \/ /\ BuildParse
       /\ UNCHANGED <<flatVars, treeVars>>
    \/ /\ BuildCollectModels
       /\ UNCHANGED <<flatVars, treeVars>>
    \/ /\ BuildCollectAutos
       /\ UNCHANGED <<flatVars, treeVars>>
    \/ /\ BuildCatalog
       /\ UNCHANGED <<flatVars, treeVars>>
SpecCatalogInit == CatalogCacheInit /\ FlatIdle /\ CatInit /\ TreeIdle
SpecCatalog == SpecCatalogInit /\ [][CatalogNext]_vars

\* The tree writer on one table
TreeNext ==
    \E gc \in GroupColChoices :
        /\ SaveCatalogTree(gc)
        /\ UNCHANGED <<cacheVars, flatVars, catVars>>
SpecTreeInit == CacheIdle /\ FlatIdle /\ CatIdle /\ TreeInit
SpecTree == SpecTreeInit /\ [][TreeNext]_vars


-----------------------------------------------------------------------------
(* Properties of the web cache, checked under SpecCache *)

\* C1: once a file is at cache_path, an unforced call returns the file's
\* contents as they are, issues no GET and leaves the file unchanged.
C1_CachedReadReturnsFile ==
    (lastFetch.ret.kind # "none" /\ lastFetch.pre.kind = "file" /\ ~lastFetch.force)
    => /\ lastFetch.ret = Returned(lastFetch.pre.bytes)
       /\ lastFetch.gets = 0
       /\ cache[lastFetch.path] = lastFetch.pre

\* C2: a call that goes to the network (no cache entry, or force) and whose
\* GET fails or answers a non-success (non-2xx) status raises after that one
\* GET, and the cache entry is as it was before the call: still absent, or
\* with its old bytes.
C2_FailedFetchLeavesCache ==
    ( /\ lastFetch.ret.kind # "none"
      /\ (lastFetch.pre.kind = "absent" \/ lastFetch.force)
      /\ \/ lastFetch.net.kind = "error"
         \/ lastFetch.net.status \notin 200..299 )
    => /\ lastFetch.ret.kind = "raise"
       /\ lastFetch.gets = 1
       /\ cache[lastFetch.path] = lastFetch.pre

-----------------------------------------------------------------------------
(* Properties of the flattener, checked under SpecFlatten *)

RECURSIVE ConcatAll(_)
ConcatAll(seqs) == IF seqs = <<>> THEN <<>> ELSE Head(seqs) \o ConcatAll(Tail(seqs))

\* The leaves of a nesting of mappings and lists/tuples in traversal order,
\* each with the keys and indices on the way to it
RECURSIVE Leaves(_)
Leaves(v) ==
    IF v.tag \in {"dict", "list", "tuple"}
    THEN ConcatAll([n \in 1..Len(v.items) |->
            LET seg == IF v.tag = "dict" THEN Str(v.items[n][1]) ELSE IntToStr(n - 1)
                sub == Leaves(IF v.tag = "dict" THEN v.items[n][2] ELSE v.items[n])
            IN [k \in 1..Len(sub) |-> [segs |-> <<seg>> \o sub[k].segs,
                                       leaf |-> sub[k].leaf]]])
    ELSE << [segs |-> <<>>, leaf |-> v] >>

\* root followed by ".<seg>" for each segment
RECURSIVE PathOf(_, _)
PathOf(root, segs) ==
    IF segs = <<>> THEN root ELSE PathOf(root \o <<".">> \o Head(segs), Tail(segs))

\* the entries the last call appended
NewRows == SubSeq(config_rows, Len(lastFlat.preRows) + 1, Len(config_rows))

\* C3: from a non-empty root path flatten_config appends exactly one entry
\* per leaf, in traversal order, whose key_path is the root followed by
\* ".<key>" / ".<index>" for each step to the leaf; {"a": 1, "b": [2, 3]}
\* from "cfg" gives exactly the scalar entries cfg.a, cfg.b.0, cfg.b.1.
C3_OneEntryPerLeaf ==
    (lastFlat.op = "flatten" /\ lastFlat.key_path # <<>>)
    => LET lv == Leaves(lastFlat.obj) IN
       /\ Len(config_rows) = Len(lastFlat.preRows) + Len(lv)
       /\ SubSeq(config_rows, 1, Len(lastFlat.preRows)) = lastFlat.preRows
       /\ \A i \in 1..Len(lv) :
            /\ NewRows[i].key_path = PathOf(lastFlat.key_path, lv[i].segs)
            /\ NewRows[i].value_kind =
                 (IF lv[i].leaf.tag = "scalar" THEN "scalar" ELSE "object")
       /\ (lastFlat.obj = ExampleConfig /\ lastFlat.key_path = CfgRoot)
          => [i \in 1..Len(NewRows) |-> <<NewRows[i].key_path, NewRows[i].value_kind>>]
             = << <<<<"c","f","g",".","a">>, "scalar">>, <<<<"c","f","g",".","b",".","0">>, "scalar">>,
                  <<<<"c","f","g",".","b",".","1">>, "scalar">> >>

\* the example configuration was flattened from "cfg" after earlier entries
C3_Witness ==
    /\ lastFlat.op = "flatten"
    /\ lastFlat.obj = ExampleConfig
    /\ lastFlat.key_path = CfgRoot
    /\ Len(lastFlat.preRows) > 0
    /\ Len(NewRows) = 3

\* C4: for a scalar input (None, bool, int, float, str) flatten_config
\* appends exactly one entry, of value_kind "scalar" with an empty
\* value_obj_id, and the object pool is left exactly as it was.
C4_ScalarLeavesPool ==
    [][ ( /\ flatCalls' = flatCalls + 1
          /\ lastFlat'.op = "flatten"
          /\ lastFlat'.obj.tag = "scalar"
          /\ lastFlat'.obj.ty \in {"NoneType", "bool", "int", "float", "str"} )
        => /\ obj_rows' = obj_rows
           /\ Len(config_rows') = Len(config_rows) + 1
           /\ SubSeq(config_rows', 1, Len(config_rows)) = config_rows
           /\ LET e == config_rows'[Len(config_rows')] IN
                /\ e.value_kind = "scalar"
                /\ e.value_obj_id = <<>>
                /\ e.key_path = lastFlat'.key_path
                /\ e.auto_name = lastFlat'.auto_name ]_vars

\* a float was flattened while the pool already held an object
C4_Witness ==
    /\ lastFlat.op = "flatten"
    /\ lastFlat.obj = FloatV(<<"1", ".", "5">>)
    /\ DOMAIN lastFlat.prePool # {}
    /\ Len(config_rows) = Len(lastFlat.preRows) + 1

\* (type, stabilized representation) of a pooled value
StableKey(x) == <<TypeStr(x), stable_repr(x)>>
RowKey(row) == <<row.py_type, row.repr>>

\* the pool ids holding a row with the key of x
RowsFor(pool, x) == { k \in DOMAIN pool : RowKey(pool[k]) = StableKey(x) }

\* C5: on one shared pool, values of the same type whose representations are
\* equal after address stripping get the same object id and are stored as
\* one row: the pool never holds two rows with the same (type, stabilized
\* representation), and a second occurrence neither adds a row nor changes
\* an existing one.
C5_PoolDedup ==
    [][ (flatCalls' = flatCalls + 1)
        => LET lv   == Leaves(lastFlat'.obj)
               new  == SubSeq(config_rows', Len(config_rows) + 1, Len(config_rows'))
               \* the values pooled by this call, each with the id it was given
               used == IF lastFlat'.op = "register"
                       THEN IF lastFlat'.obj.tag = "scalar" THEN {}
                            ELSE { <<lastFlat'.obj, lastFlat'.reg.default_obj_id>> }
                       ELSE { <<lv[i].leaf, new[i].value_obj_id>> :
                              i \in { j \in 1..Len(lv) : lv[j].leaf.tag # "scalar" } }
           IN /\ \A u1 \in used, u2 \in used :
                   StableKey(u1[1]) = StableKey(u2[1]) => u1[2] = u2[2]
              /\ \A u \in used :
                   /\ u[2] \in DOMAIN obj_rows'
                   /\ \A k \in RowsFor(obj_rows, u[1]) : u[2] = k
                   /\ Cardinality(RowsFor(obj_rows', u[1])) <= 1
                   /\ sha1 = {} => Cardinality(RowsFor(obj_rows', u[1])) = 1
              /\ \A k \in DOMAIN obj_rows :
                   k \in DOMAIN obj_rows' /\ obj_rows'[k] = obj_rows[k]
              /\ (\A u \in used : RowsFor(obj_rows, u[1]) # {}) => obj_rows' = obj_rows
              /\ \A k1 \in DOMAIN obj_rows', k2 \in DOMAIN obj_rows' :
                   RowKey(obj_rows'[k1]) = RowKey(obj_rows'[k2]) => k1 = k2 ]_vars

\* a Foo object was flattened while the pool held the row of another Foo
\* object differing only in its address, and the pool stayed as it was
C5_Witness ==
    /\ lastFlat.op = "flatten"
    /\ lastFlat.obj = ObjFoo2
    /\ RowsFor(lastFlat.prePool, ObjFoo1) # {}
    /\ Repr(ObjFoo1) # Repr(ObjFoo2)
    /\ obj_rows = lastFlat.prePool
    /\ config_rows[Len(config_rows)].value_obj_id \in RowsFor(obj_rows, ObjFoo1)

-----------------------------------------------------------------------------
(* Properties of the taxonomy parser, checked under SpecParser *)

\* The map a scan of the lines must end with, given the set H of the
\* header lines' positions: each identifier that occurs on a non-header line
\* below some header, with the family of the nearest header above its last
\* such occurrence
AttributedFamilies(lns, H) ==
    LET body == { i \in 1..Len(lns) : i \notin H /\ \E h \in H : h < i }
        occ(n) == { i \in body : \E k \in 1..Len(FindAuto(lns[i])) : FindAuto(lns[i])[k] = n }
        names == UNION { { FindAuto(lns[i])[k] : k \in 1..Len(FindAuto(lns[i])) } : i \in body }
    IN { <<n, norm(lns[Max({ h \in H : h < Max(occ(n)) })])>> : n \in names }

\* the (name, family) pairs of a map
Pairs(fm) == { fm[i] : i \in 1..Len(fm) }

\* C7: header lines are recognised whatever their letter case: the parsed
\* map is the one obtained when every line carrying a family label in any
\* case counts as a header.
C7_HeadersAnyCase ==
    pc = "parsed"
    => LET lns == DocLines(html) IN
       Pairs(fam_map) = AttributedFamilies(lns, { i \in 1..Len(lns) : is_header_AnyCase(lns[i]) })

\* C8: every Auto-prefixed identifier is mapped to the family of the most
\* recent header line above it: none before the first header, none for an
\* identifier on a header line, and the family of its last occurrence for an
\* identifier met under several headers.
C8_LatestHeaderWins ==
    pc = "parsed"
    => LET lns == DocLines(html) IN
       /\ Pairs(fam_map) = AttributedFamilies(lns, { i \in 1..Len(lns) : is_header(lns[i]) })
       /\ \A i \in 1..Len(fam_map), j \in 1..Len(fam_map) :
            fam_map[i][1] = fam_map[j][1] => i = j

\* AutoX stands before the first header and under two headers of different
\* families, and has the family of the last one
C8_Witness ==
    /\ pc = "parsed"
    /\ LET lns == DocLines(html) IN
       \E h1 \in 1..Len(lns), h2 \in 1..Len(lns), b1 \in 1..Len(lns), b2 \in 1..Len(lns) :
          /\ h1 < b1 /\ b1 < h2 /\ h2 < b2
          /\ is_header(lns[h1]) /\ is_header(lns[h2])
          /\ norm(lns[h1]) # norm(lns[h2])
          /\ \E k \in 1..Len(FindAuto(lns[b1])) : FindAuto(lns[b1])[k] = <<"A","u","t","o","X">>
          /\ \E k \in 1..Len(FindAuto(lns[b2])) : FindAuto(lns[b2])[k] = <<"A","u","t","o","X">>
          /\ ~is_header(lns[b1]) /\ ~is_header(lns[b2])
          /\ lns[1] = <<"A","u","t","o","X">>
          /\ \A k \in (h2 + 1)..Len(lns) : ~is_header(lns[k])
          /\ <<<<"A","u","t","o","X">>, norm(lns[h2])>> \in Pairs(fam_map)

-----------------------------------------------------------------------------
(* Properties of the catalog builder, checked under SpecCatalog *)

\* the plain class a wrapper wraps: the override for the wrapper, else its
\* name without the leading "Auto"
WrappedBy(w) ==
    IF \E k \in 1..Len(Overrides) : Overrides[k][1] = w
    THEN Overrides[CHOOSE k \in 1..Len(Overrides) : Overrides[k][1] = w][2]
    ELSE SubSeq(w, 5, Len(w))

\* C6: in the built catalog every wrapper class documented under a family
\* header has kind "auto_model", the plain class it wraps has kind "model"
\* and the same family; for one plain class Alpha and one wrapper AutoAlpha
\* the catalog has exactly these two rows.
C6_FamilyPropagates ==
    pc = "done"
    => /\ \A i \in 1..Len(catalog_df) :
            LET w == catalog_df[i] IN
            ( /\ w.module = library.auto_name
              /\ \E k \in 1..Len(fam_map) : fam_map[k][1] = w.name )
            => /\ w.kind = "auto_model"
               /\ w.family # ""
               /\ <<w.name, w.family>> \in Pairs(fam_map)
               /\ \A j \in 1..Len(catalog_df) :
                    LET m == catalog_df[j] IN
                    (m.module # library.auto_name /\ m.name = WrappedBy(w.name))
                    => m.kind = "model" /\ m.family = w.family
       /\ library = AlphaLibrary
          => /\ Len(catalog_df) = 2
             /\ { <<catalog_df[i].name, catalog_df[i].kind>> : i \in 1..2 }
                = { <<Alpha, "model">>, <<AutoAlpha, "auto_model">> }

\* the catalog of Alpha and AutoAlpha, AutoAlpha documented under the RNN header
C6_Witness ==
    /\ pc = "done"
    /\ library = AlphaLibrary
    /\ <<AutoAlpha, "RNN">> \in Pairs(fam_map)
    /\ \E i \in 1..Len(catalog_df) : catalog_df[i].name = Alpha /\ catalog_df[i].family = "RNN"
    /\ \E i \in 1..Len(catalog_df) : catalog_df[i].name = AutoAlpha /\ catalog_df[i].family = "RNN"

\* the rows collected for the two tables, before the DataFrames are built
CollectedFor(table) ==
    IF table = "models" THEN CollectedModelRows(library.modules, library.base_model)
    ELSE CollectedAutoRows(library.auto_members, library.auto_name, fam_map)

\* the table holds one row per collected qualified name, the one at
\* position pick(positions of that name among the collected rows)
KeepsPerName(df_, rows, pick(_)) ==
    /\ { df_[i].qualname : i \in 1..Len(df_) } = { rows[i].qualname : i \in 1..Len(rows) }
    /\ \A i \in 1..Len(df_), j \in 1..Len(df_) : df_[i].qualname = df_[j].qualname => i = j
    /\ \A i \in 1..Len(df_) :
         df_[i] = rows[pick({ k \in 1..Len(rows) : rows[k].qualname = df_[i].qualname })]

\* C9 as stated: the model tables hold at most one row per qualified name
\* and of the rows collected under one qualified name the last is kept.
C9_LastCollectedKept ==
    /\ pc \in {"models", "autos", "done"} => KeepsPerName(models_df, CollectedFor("models"), Max)
    /\ pc \in {"autos", "done"} => KeepsPerName(auto_df, CollectedFor("autos"), Max)

\* C9: the model tables hold at most one row per qualified name and of the
\* rows collected under one qualified name the first is kept.
C9_FirstCollectedKept ==
    /\ pc \in {"models", "autos", "done"} => KeepsPerName(models_df, CollectedFor("models"), Min)
    /\ pc \in {"autos", "done"} => KeepsPerName(auto_df, CollectedFor("autos"), Min)

\* one qualified name was collected twice with different rows
C9_Witness ==
    /\ pc = "models"
    /\ LET rows == CollectedFor("models") IN
       \E i \in 1..Len(rows), j \in 1..Len(rows) :
          /\ i < j
          /\ rows[i].qualname = rows[j].qualname
          /\ rows[i] # rows[j]
          /\ \E k \in 1..Len(models_df) : models_df[k] = rows[i]

-----------------------------------------------------------------------------
(* Properties of the tree writer, checked under SpecTree *)

\* the catalog.csv files holding the row at index i of the table
FilesHolding(i) ==
    { p \in DOMAIN fs : p # AllCsv /\ \E k \in 1..Len(fs[p]) : fs[p][k].idx = i }

\* C10: after a save that groups by at least one column, the catalog.csv
\* files partition the table: every row of all.csv is in exactly one of them.
C10_GroupFilesPartition ==
    (saves > 0 /\ lastSave.cols # <<>>)
    => \A i \in 1..Len(fs[AllCsv]) : Cardinality(FilesHolding(i)) = 1

=============================================================================
